---- MODULE Spec2Model ----
\* The attendance state machine of bot.py: the in-memory collections
\* excluded_user_ids, active_shifts and last_clockouts, their SQLite tables,
\* the spreadsheet log, the handlers that change them and the 15-minute
\* auto clock-out task, with its await points as the places where other
\* handlers interleave.
EXTENDS Integers, Sequences, FiniteSets, TLC

\* ---------------------------------------------------------------- bounds
\* Clock resolution: ticks per second of the wall clock read by datetime.now.
\* The stored "%Y-%m-%d %H:%M:%S" strings keep whole seconds only.
Res == 2

\* ------------------------------------------------------ program constants
CooldownMinutes == 5
MaxShiftHours == 14
LoopMinutes == 15
NoGuild == 0

Cooldown == CooldownMinutes * 60 * Res
MaxShift == MaxShiftHours * 3600 * Res
LoopInterval == LoopMinutes * 60 * Res

\* ----------------------------------------------------------------- inputs
Users == {1, 2}
BotAccounts == {9}
Members == Users \cup BotAccounts
Guilds == {10, 20}
NoChannel == 0
\* <<before.channel, after.channel>> of a voice-state update: a join, a move
\* to another channel, a leave, and an update that stays in its channel.
VoiceChanges == {<<NoChannel, 1>>, <<1, 2>>, <<1, NoChannel>>, <<1, 1>>}
NoTarget == 0

\* The instants (in ticks) at which the model reads the clock: start-up, and
\* around the 14-hour mark after it the second before, the mark, a fraction of
\* a second and a second after it, and the end of a cool-down begun at the mark.
Instants ==
    {0, MaxShift - Res, MaxShift, MaxShift + 1, MaxShift + Res, MaxShift + Cooldown}

\* ------------------------------------------------------ timestamp strings
\* A stored timestamp string: well formed (it names a calendar second) or not.
Corrupt == [ok |-> FALSE, sec |-> 0]

\* now.strftime("%Y-%m-%d %H:%M:%S"): the sub-second part is dropped.
strftime(t) == [ok |-> TRUE, sec |-> t \div Res]

\* datetime.strptime raises ValueError on a string of another shape.
ParseOk(s) == s.ok

\* ph_tz.localize(datetime.strptime(s, ...)): the instant the string names.
strptime(s) == s.sec * Res

\* -------------------------------------------------- dict and table helpers
\* active_shifts is a dict in insertion order: a sequence of items
\* [uid, clock_in, guild_id].
\* Mutant: the key is looked up under another type than it was stored with
\* (str against int), so the membership test never succeeds.
DictHasOtherType(d, k) == FALSE

\* user_id in active_shifts
DictHas(d, k) == \E i \in DOMAIN d : d[i].uid = k

DictGet(d, k) == d[CHOOSE i \in DOMAIN d : d[i].uid = k]

\* d[k] = v: replaces the value in place when the key is there, else appends.
DictSet(d, item) ==
    IF DictHas(d, item.uid)
    THEN [i \in DOMAIN d |-> IF d[i].uid = item.uid THEN item ELSE d[i]]
    ELSE Append(d, item)

\* del d[k], for a key that is there.
DictDel(d, k) == SelectSeq(d, LAMBDA it : it.uid # k)

DictKeys(d) == {d[i].uid : i \in DOMAIN d}

\* INSERT OR REPLACE INTO active_shifts, user_id being the primary key.
save_active_shift_db(rows, user_id, clock_in, guild_id) ==
    {r \in rows : r.uid # user_id}
        \cup {[uid |-> user_id, clock_in |-> clock_in, guild_id |-> guild_id]}

\* DELETE FROM active_shifts WHERE user_id = ?
remove_active_shift_db(rows, user_id) == {r \in rows : r.uid # user_id}

\* Mutant: the write to the table last_clockouts is lost.
save_last_clockout_db_lost(rows, user_id, timestamp) == rows

\* INSERT OR REPLACE INTO last_clockouts
save_last_clockout_db(rows, user_id, timestamp) ==
    {r \in rows : r.uid # user_id} \cup {[uid |-> user_id, timestamp |-> timestamp]}

\* INSERT OR IGNORE INTO excluded_users
save_excluded_user_db(rows, user_id) == rows \cup {user_id}

\* DELETE FROM excluded_users WHERE user_id = ?
remove_excluded_user_db(rows, user_id) == rows \ {user_id}

\* last_clockouts[k] = v on a dict whose order is never read.
SetLast(f, k, v) == (k :> v) @@ f

\* ------------------------------------------------------------------ state
VARIABLES
    now,                 \* the wall clock, in ticks
    excluded_user_ids,   \* set of user ids
    active_shifts,       \* dict user id -> {clock_in, guild_id}, in insertion order
    last_clockouts,      \* dict user id -> timestamp string
    db_excluded_users,   \* table excluded_users
    db_active_shifts,    \* table active_shifts
    db_last_clockouts,   \* table last_clockouts
    sheet,               \* the rows the latest step appended to the spreadsheet
    reply,               \* the message the latest step sent
    task,                \* the auto clock-out loop and the locals of its running tick
    closed_at,           \* history: per user, the latest second a clock-out was stamped with
    request_count,       \* keep_alive: dict ip -> {count, time}
    threads,             \* keep_alive: the request each server thread handles
    clock,               \* keep_alive: time.time(), in seconds
    dicts,               \* keep_alive: how many {count, time} dicts were made
    served               \* history: per ip, the requests let through in its window

bot ==
    <<now, excluded_user_ids, active_shifts, last_clockouts, db_excluded_users,
      db_active_shifts, db_last_clockouts, sheet, reply, task, closed_at>>

web == <<request_count, threads, clock, dicts, served>>

vars == <<bot, web>>

mem == <<excluded_user_ids, active_shifts, last_clockouts>>
db == <<db_excluded_users, db_active_shifts, db_last_clockouts>>

\* ------------------------------------------------------------ start-up
\* SELECT ... FROM active_shifts returns the rows in primary-key order; the
\* dict comprehension keeps that order.
RECURSIVE load_active_shifts_db(_)
load_active_shifts_db(rows) ==
    IF rows = {} THEN <<>>
    ELSE LET r == CHOOSE x \in rows : \A y \in rows : x.uid <= y.uid
         IN  <<r>> \o load_active_shifts_db(rows \ {r})

load_last_clockouts_db(rows) ==
    [u \in {r.uid : r \in rows} |-> (CHOOSE r \in rows : r.uid = u).timestamp]

load_excluded_users_db(rows) == rows

\* What the database file can hold when the process starts: nothing, a row
\* written before the guild_id column was added (guild_id NULL), or rows whose
\* timestamp text is damaged.
NoRows == [shifts |-> {}, lasts |-> {}, excluded |-> {}]
LegacyRows ==
    [shifts |-> {[uid |-> 1, clock_in |-> Corrupt, guild_id |-> 10],
                 [uid |-> 2, clock_in |-> strftime(0), guild_id |-> NoGuild]},
     lasts |-> {[uid |-> 1, timestamp |-> Corrupt]}, excluded |-> {}]
StartImages == {NoRows, LegacyRows}

\* A message: what it says, whom it is about and, for the notification of the
\* auto clock-out loop, the guild whose channel it is sent to (the answers to
\* commands and voice events are not routed: guild is NoGuild).
NoReply == [kind |-> "none", uid |-> NoTarget, guild |-> NoGuild]
Said(kind, uid) == [kind |-> kind, uid |-> uid, guild |-> NoGuild]

Idle(next_run) ==
    [pc |-> "sleeping", now |-> 0, todo |-> <<>>, expired |-> <<>>,
     next_run |-> next_run, err |-> "none"]

\* keep_alive.py: the health-check server, which shares nothing with the bot.
RATE_LIMIT == 10
RATE_TIME == 60

ClockStep == 30
MaxClock == 120
MaxDicts == 3

RemoteAddrs == {1}
NoAddr == 0
Threads == {1, 2}

\* A thread that handles no request.
Waiting == [pc |-> "idle", now |-> 0, ip |-> NoAddr, d |-> 0, v |-> 0]

\* request_count = {} and no request in progress.
WebInit ==
    /\ request_count = <<>>
    /\ threads = [t \in Threads |-> Waiting]
    /\ clock = 0
    /\ dicts = 0
    /\ served = [ip \in RemoteAddrs |-> 0]

Init ==
    /\ WebInit
    /\ now = 0
    /\ \E img \in StartImages :
        /\ db_excluded_users = img.excluded
        /\ db_active_shifts = img.shifts
        /\ db_last_clockouts = img.lasts
    /\ excluded_user_ids = load_excluded_users_db(db_excluded_users)
    /\ active_shifts = load_active_shifts_db(db_active_shifts)
    /\ last_clockouts = load_last_clockouts_db(db_last_clockouts)
    /\ sheet = <<>>
    /\ reply = NoReply
    /\ task = [Idle(0) EXCEPT !.pc = "unstarted"]
    /\ closed_at = <<>>

\* ------------------------------------------------------ eligibility policy
\* Mutant: the cool-down still holds at its last instant (<= for <).
can_clock_in_inclusive(user_id, t) ==
    IF user_id \in excluded_user_ids THEN FALSE
    ELSE IF DictHas(active_shifts, user_id) THEN FALSE
    ELSE IF user_id \in DOMAIN last_clockouts
         THEN LET last_out_str == last_clockouts[user_id]
              IN  IF ParseOk(last_out_str)
                  THEN ~(t - strptime(last_out_str) <= Cooldown)
                  ELSE TRUE
         ELSE TRUE

\* Mutant: a last clock-out that does not parse turns the clock-in down.
can_clock_in_strict_parse(user_id, t) ==
    IF user_id \in excluded_user_ids THEN FALSE
    ELSE IF DictHas(active_shifts, user_id) THEN FALSE
    ELSE IF user_id \in DOMAIN last_clockouts
         THEN LET last_out_str == last_clockouts[user_id]
              IN  IF ParseOk(last_out_str)
                  THEN ~(t - strptime(last_out_str) < Cooldown)
                  ELSE FALSE
         ELSE TRUE

\* Mutant: the test for an open shift is left out.
can_clock_in_reopen(user_id, t) ==
    IF user_id \in excluded_user_ids THEN FALSE
    ELSE IF user_id \in DOMAIN last_clockouts
         THEN LET last_out_str == last_clockouts[user_id]
              IN  IF ParseOk(last_out_str)
                  THEN ~(t - strptime(last_out_str) < Cooldown)
                  ELSE TRUE
         ELSE TRUE

\* can_clock_in(user_id), with t the value datetime.now(ph_tz) returns in it.
can_clock_in(user_id, t) ==
    IF user_id \in excluded_user_ids THEN FALSE
    ELSE IF DictHas(active_shifts, user_id) THEN FALSE
    ELSE IF user_id \in DOMAIN last_clockouts
         THEN LET last_out_str == last_clockouts[user_id]
              IN  IF ParseOk(last_out_str)
                  THEN ~(t - strptime(last_out_str) < Cooldown)
                  ELSE TRUE
         ELSE TRUE

\* sheet.append_row(row): the row is appended, or the call raises.
append_row(rows, ok, name, action, timestamp_str) ==
    IF ok THEN Append(rows, [name |-> name, action |-> action, ts |-> timestamp_str])
    ELSE rows

\* History of clock-outs: the stamp is kept when it is later than the one held.
Stamp(h, user_id, timestamp_str) ==
    IF user_id \in DOMAIN h /\ h[user_id] >= timestamp_str.sec THEN h
    ELSE SetLast(h, user_id, timestamp_str.sec)


\* --------------------------------------------------------------- handlers
\* active_shifts[user_id] = {...}; save_active_shift_db(...)
OpenShift(user_id, timestamp_str, guild_id) ==
    /\ active_shifts' =
           DictSet(active_shifts,
                   [uid |-> user_id, clock_in |-> timestamp_str, guild_id |-> guild_id])
    /\ db_active_shifts' =
           save_active_shift_db(db_active_shifts, user_id, timestamp_str, guild_id)

\* del active_shifts[user_id]; remove_active_shift_db(user_id)
CloseShift(user_id) ==
    /\ active_shifts' = DictDel(active_shifts, user_id)
    /\ db_active_shifts' = remove_active_shift_db(db_active_shifts, user_id)

\* last_clockouts[user_id] = timestamp_str; save_last_clockout_db(...)
RecordClockOut(user_id, timestamp_str) ==
    /\ last_clockouts' = SetLast(last_clockouts, user_id, timestamp_str)
    /\ db_last_clockouts' = save_last_clockout_db(db_last_clockouts, user_id, timestamp_str)
    /\ closed_at' = Stamp(closed_at, user_id, timestamp_str)

\* Events are handled one at a time: what a step sent (its message, its
\* spreadsheet rows) has been taken over by Discord and the spreadsheet before
\* the next event is dispatched.
Quiet == sheet = <<>> /\ reply = NoReply

Deliver ==
    /\ ~Quiet
    /\ UNCHANGED web
    /\ sheet' = <<>>
    /\ reply' = NoReply
    /\ UNCHANGED <<now, excluded_user_ids, active_shifts, last_clockouts, db_excluded_users,
                   db_active_shifts, db_last_clockouts, task, closed_at>>

\* A handler returns having changed nothing but the message it sent.
Refuse(kind, uid) ==
    /\ reply' = Said(kind, uid)
    /\ sheet' = <<>>
    /\ UNCHANGED <<now, excluded_user_ids, active_shifts, last_clockouts, db_excluded_users,
                   db_active_shifts, db_last_clockouts, task, closed_at>>

\* Mutant: leaving the voice channel closes the open shift of the member.
on_voice_state_update_leave_closes(member, guild_id, before, after) ==
    LET timestamp_str == strftime(now) IN
    /\ Quiet
    /\ UNCHANGED web
    /\ IF member \in BotAccounts THEN Refuse("none", NoTarget)
       ELSE IF member \in excluded_user_ids THEN Refuse("none", NoTarget)
       ELSE IF after # NoChannel /\ before # after /\ can_clock_in(member, now)
       THEN /\ OpenShift(member, timestamp_str, guild_id)
            /\ \E sheet_ok \in BOOLEAN :
                   sheet' = append_row(<<>>, sheet_ok, member, "Clock In", timestamp_str)
            /\ reply' = Said("auto_clocked_in", member)
            /\ UNCHANGED <<now, excluded_user_ids, last_clockouts, db_excluded_users,
                           db_last_clockouts, task, closed_at>>
       ELSE IF after = NoChannel /\ before # after /\ DictHas(active_shifts, member)
       THEN /\ CloseShift(member)
            /\ sheet' = <<>>
            /\ reply' = Said("left_voice", member)
            /\ UNCHANGED <<now, excluded_user_ids, last_clockouts, db_excluded_users,
                           db_last_clockouts, task, closed_at>>
       ELSE Refuse("none", NoTarget)

\* on_voice_state_update(member, before, after) in guild guild_id; sheet_ok
\* tells whether sheet.append_row succeeds.
on_voice_state_update(member, guild_id, before, after) ==
    LET timestamp_str == strftime(now) IN
    /\ Quiet
    /\ UNCHANGED web
    /\ IF member \in BotAccounts THEN Refuse("none", NoTarget)
       ELSE IF member \in excluded_user_ids THEN Refuse("none", NoTarget)
       ELSE IF after # NoChannel /\ before # after /\ can_clock_in(member, now)
       THEN /\ OpenShift(member, timestamp_str, guild_id)
            /\ \E sheet_ok \in BOOLEAN :
                   sheet' = append_row(<<>>, sheet_ok, member, "Clock In", timestamp_str)
            /\ reply' = Said("auto_clocked_in", member)
            /\ UNCHANGED <<now, excluded_user_ids, last_clockouts, db_excluded_users,
                           db_last_clockouts, task, closed_at>>
       ELSE Refuse("none", NoTarget)

\* Mutant: the eligibility check drops a last clock-out that does not parse.
clockin_check_repairs(target, guild_id, sheet_ok) ==
    LET timestamp_str == strftime(now)
        repaired == [u \in {v \in DOMAIN last_clockouts :
                                v # target \/ ParseOk(last_clockouts[v])} |->
                        last_clockouts[u]]
    IN
    /\ Quiet
    /\ UNCHANGED web
    /\ IF target = NoTarget THEN Refuse("no_user_found", target)
       ELSE IF target \in excluded_user_ids THEN Refuse("is_excluded", target)
       ELSE /\ last_clockouts' = repaired
            /\ IF ~can_clock_in(target, now) \/ ~sheet_ok
               THEN /\ reply' = Said(IF ~can_clock_in(target, now) THEN "cannot_clock_in"
                                     ELSE "clockin_not_logged", target)
                    /\ sheet' = <<>>
                    /\ UNCHANGED <<active_shifts, db_active_shifts>>
               ELSE /\ sheet' = append_row(<<>>, TRUE, target, "Clock In", timestamp_str)
                    /\ OpenShift(target, timestamp_str, guild_id)
                    /\ reply' = Said("clocked_in", target)
            /\ UNCHANGED <<now, excluded_user_ids, db_excluded_users,
                           db_last_clockouts, task, closed_at>>

\* !clockin, target being the member it resolves to (NoTarget: no such user).
clockin(target, guild_id, sheet_ok) ==
    LET timestamp_str == strftime(now) IN
    /\ Quiet
    /\ UNCHANGED web
    /\ IF target = NoTarget THEN Refuse("no_user_found", target)
       ELSE IF target \in excluded_user_ids THEN Refuse("is_excluded", target)
       ELSE IF ~can_clock_in(target, now) THEN Refuse("cannot_clock_in", target)
       ELSE IF ~sheet_ok THEN Refuse("clockin_not_logged", target)
       ELSE /\ sheet' = append_row(<<>>, TRUE, target, "Clock In", timestamp_str)
            /\ OpenShift(target, timestamp_str, guild_id)
            /\ reply' = Said("clocked_in", target)
            /\ UNCHANGED <<now, excluded_user_ids, last_clockouts, db_excluded_users,
                           db_last_clockouts, task, closed_at>>

\* Mutant: the user is added to the exclusion set and keeps the open shift.
exclude_keep_shift(target) ==
    /\ Quiet
    /\ UNCHANGED web
    /\ IF target = NoTarget THEN Refuse("no_user_found", target)
       ELSE IF target \in excluded_user_ids THEN Refuse("already_excluded", target)
       ELSE /\ db_excluded_users' = save_excluded_user_db(db_excluded_users, target)
            /\ excluded_user_ids' = excluded_user_ids \cup {target}
            /\ reply' = Said("now_excluded", target)
            /\ sheet' = <<>>
            /\ UNCHANGED <<now, active_shifts, db_active_shifts, last_clockouts,
                           db_last_clockouts, task, closed_at>>

\* Mutant: the exclude that removes a shift records it as a clock-out.
exclude_records_clockout(target) ==
    /\ Quiet
    /\ UNCHANGED web
    /\ IF target = NoTarget THEN Refuse("no_user_found", target)
       ELSE IF target \in excluded_user_ids THEN Refuse("already_excluded", target)
       ELSE /\ db_excluded_users' = save_excluded_user_db(db_excluded_users, target)
            /\ excluded_user_ids' = excluded_user_ids \cup {target}
            /\ IF DictHas(active_shifts, target)
               THEN CloseShift(target) /\ RecordClockOut(target, strftime(now))
               ELSE UNCHANGED <<active_shifts, db_active_shifts, last_clockouts,
                                db_last_clockouts, closed_at>>
            /\ reply' = Said("now_excluded", target)
            /\ sheet' = <<>>
            /\ UNCHANGED <<now, task>>

\* !exclude
exclude(target) ==
    /\ Quiet
    /\ UNCHANGED web
    /\ IF target = NoTarget THEN Refuse("no_user_found", target)
       ELSE IF target \in excluded_user_ids THEN Refuse("already_excluded", target)
       ELSE /\ db_excluded_users' = save_excluded_user_db(db_excluded_users, target)
            /\ excluded_user_ids' = excluded_user_ids \cup {target}
            /\ IF DictHas(active_shifts, target)
               THEN CloseShift(target)
               ELSE UNCHANGED <<active_shifts, db_active_shifts>>
            /\ reply' = Said("now_excluded", target)
            /\ sheet' = <<>>
            /\ UNCHANGED <<now, last_clockouts, db_last_clockouts, task, closed_at>>

\* Mutant: the membership test is left out; set.remove of a user who is not
\* in the set raises KeyError.
include_unchecked(target) ==
    /\ Quiet
    /\ UNCHANGED web
    /\ IF target = NoTarget THEN Refuse("no_user_found", target)
       ELSE /\ db_excluded_users' = remove_excluded_user_db(db_excluded_users, target)
            /\ excluded_user_ids' = excluded_user_ids \ {target}
            /\ reply' = Said(IF target \in excluded_user_ids THEN "now_included"
                             ELSE "KeyError", target)
            /\ sheet' = <<>>
            /\ UNCHANGED <<now, active_shifts, db_active_shifts, last_clockouts,
                           db_last_clockouts, task, closed_at>>

\* !include
include(target) ==
    /\ Quiet
    /\ UNCHANGED web
    /\ IF target = NoTarget THEN Refuse("no_user_found", target)
       ELSE IF target \notin excluded_user_ids THEN Refuse("not_excluded", target)
       ELSE /\ db_excluded_users' = remove_excluded_user_db(db_excluded_users, target)
            /\ excluded_user_ids' = excluded_user_ids \ {target}
            /\ reply' = Said("now_included", target)
            /\ sheet' = <<>>
            /\ UNCHANGED <<now, active_shifts, db_active_shifts, last_clockouts,
                           db_last_clockouts, task, closed_at>>

\* !onduty: the loop that fills the dict on_duty_in_guild from
\* active_shifts.items(), in the order of that dict.
RECURSIVE on_duty_in_guild(_, _)
on_duty_in_guild(d, guild_id) ==
    IF d = <<>> THEN <<>>
    ELSE LET shift_info == d[Len(d)]
             sofar == on_duty_in_guild(SubSeq(d, 1, Len(d) - 1), guild_id)
         IN  IF shift_info.guild_id = guild_id /\ shift_info.guild_id # NoGuild
             THEN DictSet(sofar, [uid |-> shift_info.uid,
                                  clock_in |-> shift_info.clock_in])
             ELSE sofar

\* The lines of the message !onduty sends in the guild guild_id, one per
\* user; the empty sequence stands for "No users are currently on duty".
onduty(guild_id) == on_duty_in_guild(active_shifts, guild_id)

\* !forceclockout @member
forceclockout(member, sheet_ok) ==
    LET timestamp_str == strftime(now)
        was_active == DictHas(active_shifts, member)
    IN  /\ Quiet
        /\ UNCHANGED web
        /\ IF ~sheet_ok THEN Refuse("force_not_logged", member)
           ELSE
             /\ sheet' = append_row(<<>>, TRUE, member, "Clock Out (Force)", timestamp_str)
             /\ IF was_active
                THEN CloseShift(member)
                ELSE UNCHANGED <<active_shifts, db_active_shifts>>
             /\ RecordClockOut(member, timestamp_str)
             /\ reply' = Said(IF was_active THEN "force_clocked_out"
                              ELSE "force_logged_not_active", member)
             /\ UNCHANGED <<now, excluded_user_ids, db_excluded_users, task>>

\* Mutant: the failure of the append is only reported, and the clock-out goes on.
clockout_swallow(author, sheet_ok) ==
    LET timestamp_str == strftime(now)
        was_active == DictHas(active_shifts, author)
    IN  /\ Quiet
        /\ UNCHANGED web
        /\ IF author \in excluded_user_ids
           THEN Refuse("excluded_cannot_clock_out", author)
           ELSE
             /\ sheet' = append_row(<<>>, sheet_ok, author, "Clock Out", timestamp_str)
             /\ IF was_active
                THEN CloseShift(author)
                ELSE UNCHANGED <<active_shifts, db_active_shifts>>
             /\ RecordClockOut(author, timestamp_str)
             /\ reply' = Said(IF ~sheet_ok THEN "clockout_not_logged"
                              ELSE IF was_active THEN "clocked_out"
                              ELSE "logged_not_active", author)
             /\ UNCHANGED <<now, excluded_user_ids, db_excluded_users, task>>

\* Mutant: a clock-out without an open shift is turned down.
clockout_strict(author, sheet_ok) ==
    LET timestamp_str == strftime(now)
        was_active == DictHas(active_shifts, author)
    IN  /\ Quiet
        /\ UNCHANGED web
        /\ IF author \in excluded_user_ids
           THEN Refuse("excluded_cannot_clock_out", author)
           ELSE IF ~sheet_ok THEN Refuse("clockout_not_logged", author)
           ELSE IF ~was_active THEN Refuse("not_clocked_in", author)
           ELSE
             /\ sheet' = append_row(<<>>, TRUE, author, "Clock Out", timestamp_str)
             /\ CloseShift(author)
             /\ RecordClockOut(author, timestamp_str)
             /\ reply' = Said("clocked_out", author)
             /\ UNCHANGED <<now, excluded_user_ids, db_excluded_users, task>>

\* Mutant: the second clock-out in a row keeps the time of the first.
clockout_keep_first(author, sheet_ok) ==
    LET timestamp_str == strftime(now)
        was_active == DictHas(active_shifts, author)
    IN  /\ Quiet
        /\ UNCHANGED web
        /\ IF author \in excluded_user_ids
           THEN Refuse("excluded_cannot_clock_out", author)
           ELSE IF ~sheet_ok THEN Refuse("clockout_not_logged", author)
           ELSE
             /\ sheet' = append_row(<<>>, TRUE, author, "Clock Out", timestamp_str)
             /\ IF was_active
                THEN CloseShift(author) /\ RecordClockOut(author, timestamp_str)
                ELSE UNCHANGED <<active_shifts, db_active_shifts, last_clockouts,
                                 db_last_clockouts, closed_at>>
             /\ reply' = Said(IF was_active THEN "clocked_out" ELSE "logged_not_active",
                              author)
             /\ UNCHANGED <<now, excluded_user_ids, db_excluded_users, task>>

\* Mutant: the exclusion of the author is not looked at.
clockout_ignores_exclusion(author, sheet_ok) ==
    LET timestamp_str == strftime(now)
        was_active == DictHas(active_shifts, author)
    IN  /\ Quiet
        /\ UNCHANGED web
        /\ IF ~sheet_ok THEN Refuse("clockout_not_logged", author)
           ELSE
             /\ sheet' = append_row(<<>>, TRUE, author, "Clock Out", timestamp_str)
             /\ IF was_active
                THEN CloseShift(author)
                ELSE UNCHANGED <<active_shifts, db_active_shifts>>
             /\ RecordClockOut(author, timestamp_str)
             /\ reply' = Said(IF was_active THEN "clocked_out" ELSE "logged_not_active",
                              author)
             /\ UNCHANGED <<now, excluded_user_ids, db_excluded_users, task>>

\* !clockout, sent by author
clockout(author, sheet_ok) ==
    LET timestamp_str == strftime(now)
        was_active == DictHas(active_shifts, author)
    IN  /\ Quiet
        /\ UNCHANGED web
        /\ IF author \in excluded_user_ids
           THEN Refuse("excluded_cannot_clock_out", author)
           ELSE IF ~sheet_ok THEN Refuse("clockout_not_logged", author)
           ELSE
             /\ sheet' = append_row(<<>>, TRUE, author, "Clock Out", timestamp_str)
             /\ IF was_active
                THEN CloseShift(author)
                ELSE UNCHANGED <<active_shifts, db_active_shifts>>
             /\ RecordClockOut(author, timestamp_str)
             /\ reply' = Said(IF was_active THEN "clocked_out" ELSE "logged_not_active",
                              author)
             /\ UNCHANGED <<now, excluded_user_ids, db_excluded_users, task>>

\* Time passes: the next event reads a later clock.
Advance ==
    /\ Quiet
    /\ UNCHANGED web
    /\ \E t \in Instants : t > now /\ now' = t
    /\ sheet' = <<>>
    /\ reply' = NoReply
    /\ UNCHANGED <<excluded_user_ids, active_shifts, last_clockouts, db_excluded_users,
                   db_active_shifts, db_last_clockouts, task, closed_at>>

\* ----------------------------------------------------- auto clock-out task
\* on_ready: auto_clockout_expired_shifts.start(). The first call starts the
\* loop, whose first tick is due at once; a later call (on_ready runs again
\* at every reconnect) raises in start() and changes nothing.
on_ready ==
    /\ Quiet
    /\ UNCHANGED web
    /\ task' = IF task.pc = "unstarted" THEN Idle(now) ELSE task
    /\ sheet' = <<>>
    /\ reply' = NoReply
    /\ UNCHANGED <<now, excluded_user_ids, active_shifts, last_clockouts,
                   db_excluded_users, db_active_shifts, db_last_clockouts, closed_at>>

\* The test of the for loop over the snapshot: the clock-in string parses and
\* the shift is 14 hours old.
Expired(item, tick_now) ==
    /\ ParseOk(item.clock_in)
    /\ tick_now - strptime(item.clock_in) >= MaxShift

\* The body of the for loop for one item: an expired shift is logged, its
\* clock-out time recorded and its user appended to expired.
SweepItem(acc, item, tick_now, sheet_ok) ==
    IF ~Expired(item, tick_now) THEN acc
    ELSE LET timestamp_str == strftime(tick_now) IN
         [lasts |-> SetLast(acc.lasts, item.uid, timestamp_str),
          rows |-> save_last_clockout_db(acc.rows, item.uid, timestamp_str),
          sheet |-> append_row(acc.sheet, sheet_ok, item.uid, "Clock Out (Auto)",
                               timestamp_str),
          expired |-> Append(acc.expired, item.uid),
          closed |-> Stamp(acc.closed, item.uid, timestamp_str)]

RECURSIVE SweepItems(_, _, _, _)
SweepItems(acc, items, tick_now, sheet_ok) ==
    IF items = <<>> THEN acc
    ELSE SweepItems(SweepItem(acc, Head(items), tick_now, sheet_ok), Tail(items),
                    tick_now, sheet_ok)

\* for uid in expired: del active_shifts[uid]; remove_active_shift_db(uid).
\* del raises KeyError when the key is gone, and the loop ends there.
RECURSIVE RemoveExpired(_, _, _)
RemoveExpired(expired, shifts, rows) ==
    IF expired = <<>> THEN [shifts |-> shifts, rows |-> rows, err |-> "none"]
    ELSE IF ~DictHas(shifts, Head(expired))
    THEN [shifts |-> shifts, rows |-> rows, err |-> "KeyError"]
    ELSE RemoveExpired(Tail(expired), DictDel(shifts, Head(expired)),
                       remove_active_shift_db(rows, Head(expired)))

\* The guild the notification goes to: the guild of the shift record when it
\* has one, else (guild_id NULL) the first guild of bot.guilds that has the user
\* as a member and a text channel.
notification_guild(guild_id, guild_in_bot) ==
    IF guild_id # NoGuild THEN guild_id ELSE guild_in_bot

\* The tick runs from its start or from an await to its next await or its end:
\* it works through todo up to item k, at which it awaits the send of the
\* notification (k beyond todo: no further send, the tick runs to its end).
RunTick(tick_now, todo, expired, k, sheet_ok) ==
    LET n == Len(todo)
        upto == IF k <= n THEN k ELSE n
        acc == SweepItems([lasts |-> last_clockouts, rows |-> db_last_clockouts,
                           sheet |-> <<>>, expired |-> expired, closed |-> closed_at],
                          SubSeq(todo, 1, upto), tick_now, sheet_ok)
    IN  /\ k <= n + 1
        /\ k <= n => Expired(todo[k], tick_now)
        /\ last_clockouts' = acc.lasts
        /\ db_last_clockouts' = acc.rows
        /\ closed_at' = acc.closed
        /\ sheet' = acc.sheet
        /\ IF k <= n
           THEN /\ task' = [pc |-> "awaiting", now |-> tick_now,
                            todo |-> SubSeq(todo, k + 1, n), expired |-> acc.expired,
                            next_run |-> tick_now + LoopInterval, err |-> "none"]
                /\ \E guild_in_bot \in Guilds :
                       reply' = [kind |-> "auto_clocked_out", uid |-> todo[k].uid,
                                 guild |-> notification_guild(todo[k].guild_id,
                                                              guild_in_bot)]
                /\ UNCHANGED <<active_shifts, db_active_shifts>>
           ELSE LET done == RemoveExpired(acc.expired, active_shifts, db_active_shifts) IN
                /\ active_shifts' = done.shifts
                /\ db_active_shifts' = done.rows
                /\ task' = IF done.err = "none"
                           THEN Idle(tick_now + LoopInterval)
                           ELSE [Idle(tick_now + LoopInterval) EXCEPT
                                     !.pc = "failed", !.now = tick_now,
                                     !.expired = acc.expired, !.err = done.err]
                /\ reply' = NoReply
        /\ UNCHANGED <<now, excluded_user_ids, db_excluded_users>>

\* A tick of auto_clockout_expired_shifts starts: now is read and the items of
\* active_shifts are copied.
TickStart(k, sheet_ok) ==
    /\ Quiet
    /\ UNCHANGED web
    /\ task.pc = "sleeping"
    /\ now >= task.next_run
    /\ RunTick(now, active_shifts, <<>>, k, sheet_ok)

\* The awaited send returns (the message sent, or discord.Forbidden caught)
\* and the tick goes on with the next item of its snapshot.
TickResume(k, sheet_ok) ==
    /\ Quiet
    /\ UNCHANGED web
    /\ task.pc = "awaiting"
    /\ RunTick(task.now, task.todo, task.expired, k, sheet_ok)

\* ---------------------------------------------------------- specification
Next ==
    \/ \E m \in Members, g \in Guilds, c \in VoiceChanges :
           on_voice_state_update(m, g, c[1], c[2])
    \/ \E u \in Users \cup {NoTarget}, g \in Guilds, ok \in BOOLEAN : clockin(u, g, ok)
    \/ \E u \in Users \cup {NoTarget} : exclude(u)
    \/ \E u \in Users \cup {NoTarget} : include(u)
    \/ \E u \in Users, ok \in BOOLEAN : forceclockout(u, ok)
    \/ \E u \in Users, ok \in BOOLEAN : clockout(u, ok)
    \/ Deliver
    \/ Advance
    \/ on_ready
    \/ \E k \in 1 .. (Cardinality(Users) + 1), ok \in BOOLEAN : TickStart(k, ok)
    \/ \E k \in 1 .. (Cardinality(Users) + 1), ok \in BOOLEAN : TickResume(k, ok)

Spec == Init /\ [][Next]_vars

\* ------------------------------------------------------------------ claims
HasShift(u) == DictHas(active_shifts, u)
ShiftOf(u) == DictGet(active_shifts, u)
HasLast(u) == u \in DOMAIN last_clockouts /\ ParseOk(last_clockouts[u])

\* C1: in every reachable state each user has at most one open shift record,
\* in the active_shifts dict and in the active_shifts table.
C1_OneOpenShiftPerUser ==
    \A u \in Users :
        /\ Cardinality({i \in DOMAIN active_shifts : active_shifts[i].uid = u}) <= 1
        /\ Cardinality({r \in db_active_shifts : r.uid = u}) <= 1

\* A clock-in was asked for a user who holds an open shift, and was refused.
C1_Witness ==
    /\ reply.kind = "cannot_clock_in"
    /\ HasShift(reply.uid)
    /\ \E r \in db_active_shifts : r.uid = reply.uid

\* The instants at which C2 probes can_clock_in for user u: the instants of
\* the model, and the second before, the instant of and the second after the
\* end of the cool-down that the stored clock-out time begins.
ProbeTimes(u) ==
    Instants \cup
        (IF HasLast(u)
         THEN LET T == strptime(last_clockouts[u])
              IN  {T + Cooldown - Res, T + Cooldown - 1, T + Cooldown, T + Cooldown + Res}
         ELSE {})

\* C2: can_clock_in(u, now) is denied for an excluded user, else denied for a
\* user with an open shift, else denied when a last clock-out time T is stored
\* and now - T < 5 minutes, and allowed otherwise; with T stored it is denied
\* at T + cooldown - 1 s and allowed at T + cooldown and at T + cooldown + 1 s.
C2_EligibilityTable ==
    \A u \in Users :
        /\ \A t \in ProbeTimes(u) :
               can_clock_in(u, t) <=>
                   /\ u \notin excluded_user_ids
                   /\ ~HasShift(u)
                   /\ ~(HasLast(u) /\ t - strptime(last_clockouts[u]) < Cooldown)
        /\ (HasLast(u) /\ u \notin excluded_user_ids /\ ~HasShift(u)) =>
               LET T == strptime(last_clockouts[u])
               IN  /\ ~can_clock_in(u, T + Cooldown - Res)
                   /\ can_clock_in(u, T + Cooldown)
                   /\ can_clock_in(u, T + Cooldown + Res)

\* A user clocked in at the very instant the cool-down of the stored
\* clock-out ended.
C2_Witness ==
    \E u \in Users :
        /\ HasShift(u)
        /\ HasLast(u)
        /\ ParseOk(ShiftOf(u).clock_in)
        /\ strptime(ShiftOf(u).clock_in) = strptime(last_clockouts[u]) + Cooldown
        /\ now = strptime(ShiftOf(u).clock_in)

\* A clock-out of user u is asked for: !clockout by u, who is not excluded, or
\* !forceclockout @u; ok tells whether the spreadsheet takes the row.
ClockOutAsked(u, ok) ==
    \/ u \notin excluded_user_ids /\ clockout(u, ok)
    \/ forceclockout(u, ok)

NotActiveFlags == {"logged_not_active", "force_logged_not_active"}

\* C3: once a clock-out of u was stamped with time T, no shift of u is opened
\* at a time earlier than T + 5 minutes.
C3_CooldownAfterEveryClockOut ==
    [][\A u \in Users :
          (~HasShift(u) /\ HasShift(u)' /\ u \in DOMAIN closed_at) =>
              now - closed_at[u] * Res >= Cooldown]_vars

ClockInAsked(u, g, ok) ==
    u \notin excluded_user_ids /\ can_clock_in(u, now) /\ clockin(u, g, ok)

\* A voice event that on_voice_state_update answers with a clock-in.
VoiceJoin(u, g, c) ==
    /\ c[2] # NoChannel /\ c[1] # c[2]
    /\ u \notin excluded_user_ids /\ can_clock_in(u, now)
    /\ on_voice_state_update(u, g, c[1], c[2])

\* The shift that a clock-in of u at the present time in guild g opens.
Opened(u, g) == [uid |-> u, clock_in |-> strftime(now), guild_id |-> g]

TickStep == task.pc \in {"sleeping", "awaiting"} /\ task' # task
TickNow == IF task.pc = "awaiting" THEN task.now ELSE now
TickEnds == TickStep /\ task'.pc \in {"sleeping", "failed"}

\* C7: whenever a step of the auto clock-out task removes the open shift of a
\* user, the shift it removes was opened at least 14 hours before the time of
\* the tick.
C7_NeverClosesEarly ==
    [][\A u \in Users :
          (TickStep /\ HasShift(u) /\ ~HasShift(u)') => Expired(ShiftOf(u), TickNow)]_vars

\* C8: when a tick of the auto clock-out task ends, no shift is left open
\* whose clock-in time parses and lies 14 hours or more before the time of
\* the tick.
C8_ClosedAtFirstTick ==
    [][TickEnds =>
          \A u \in Users :
              HasShift(u)' => ~Expired(DictGet(active_shifts', u), TickNow)]_vars

\* C9: no user of the exclusion set has an open shift, in the dict or in the
\* table, and no clock-in is ever granted to a user of the exclusion set.
C9_ExcludedHasNoShift ==
    /\ \A u \in excluded_user_ids :
           ~HasShift(u) /\ \A r \in db_active_shifts : r.uid # u
    /\ reply.kind \in {"clocked_in", "auto_clocked_in"} => reply.uid \notin excluded_user_ids

\* A user was excluded while the auto clock-out task, suspended at a send,
\* still had the user's shift in its snapshot.
C9_Witness ==
    /\ reply.kind = "now_excluded"
    /\ task.pc = "awaiting"
    /\ \E i \in DOMAIN task.todo : task.todo[i].uid = reply.uid
    /\ reply.uid \in excluded_user_ids
    /\ ~HasShift(reply.uid)

\* C10: a tick of the auto clock-out task always runs to its end: the removal
\* of the expired shifts raises no error, whatever was closed while the tick
\* was suspended, and every user the tick selected is without the shift.
C10_TickSurvivesConcurrentClose ==
    /\ task.err = "none"
    /\ task.pc # "failed"

\* C11: a stored LastClockOut that parses is never deleted and never replaced
\* by the timestamp of an earlier time.
C11_LastClockOutMonotone ==
    [][\A u \in Users :
          HasLast(u) =>
              /\ u \in DOMAIN last_clockouts'
              /\ ParseOk(last_clockouts'[u])
              /\ strptime(last_clockouts'[u]) >= strptime(last_clockouts[u])]_vars

\* Why a clock-in of user u is turned down in the present state, "none" when
\* it is not: the three tests of the eligibility rules, in their order.
DenialReason(u) ==
    IF u \in excluded_user_ids THEN "excluded"
    ELSE IF HasShift(u) THEN "already_clocked_in"
    ELSE IF HasLast(u) /\ now - strptime(last_clockouts[u]) < Cooldown
    THEN "cooldown_active"
    ELSE "none"

\* The message by which !clockin turns the target down, "none" when it goes on.
clockin_denial(target) ==
    IF target \in excluded_user_ids THEN "is_excluded"
    ELSE IF ~can_clock_in(target, now) THEN "cannot_clock_in"
    ELSE "none"

\* C12: two clock-ins that are turned down for different reasons never get
\* the same decision value from can_clock_in nor the same message from
\* !clockin.
C12_DenialsCarryReason ==
    \A u, v \in Users :
        (/\ DenialReason(u) # "none"
         /\ DenialReason(v) # "none"
         /\ DenialReason(u) # DenialReason(v)) =>
            /\ can_clock_in(u, now) # can_clock_in(v, now)
            /\ clockin_denial(u) # clockin_denial(v)

\* ------------------------------------------------------ crash and restart
\* The process dies and is started again: the module globals are loaded from
\* the tables as the dying process left them, and the loop task is not yet
\* started.
Restart(excluded_rows, shift_rows, last_rows) ==
    /\ db_excluded_users' = excluded_rows
    /\ db_active_shifts' = shift_rows
    /\ db_last_clockouts' = last_rows
    /\ excluded_user_ids' = load_excluded_users_db(excluded_rows)
    /\ active_shifts' = load_active_shifts_db(shift_rows)
    /\ last_clockouts' = load_last_clockouts_db(last_rows)
    /\ task' = [Idle(0) EXCEPT !.pc = "unstarted"]
    /\ reply' = NoReply
    /\ UNCHANGED <<now, closed_at>>

\* The process dies while no handler runs.
crash_idle ==
    /\ Quiet
    /\ UNCHANGED web
    /\ task.pc # "awaiting"
    /\ sheet' = <<>>
    /\ Restart(db_excluded_users, db_active_shifts, db_last_clockouts)

\* The process dies in !clockout between the commit of remove_active_shift_db
\* and the commit of save_last_clockout_db.
crash_in_clockout(author) ==
    /\ Quiet
    /\ UNCHANGED web
    /\ author \notin excluded_user_ids
    /\ DictHas(active_shifts, author)
    /\ sheet' = append_row(<<>>, TRUE, author, "Clock Out", strftime(now))
    /\ Restart(db_excluded_users, remove_active_shift_db(db_active_shifts, author),
               db_last_clockouts)

\* The process dies in !forceclockout between the same two commits.
crash_in_forceclockout(member) ==
    /\ Quiet
    /\ UNCHANGED web
    /\ DictHas(active_shifts, member)
    /\ sheet' = append_row(<<>>, TRUE, member, "Clock Out (Force)", strftime(now))
    /\ Restart(db_excluded_users, remove_active_shift_db(db_active_shifts, member),
               db_last_clockouts)

\* The process dies in !exclude between the commit of save_excluded_user_db
\* and the commit of remove_active_shift_db.
crash_in_exclude(target) ==
    /\ Quiet
    /\ UNCHANGED web
    /\ target \notin excluded_user_ids
    /\ DictHas(active_shifts, target)
    /\ sheet' = <<>>
    /\ Restart(save_excluded_user_db(db_excluded_users, target), db_active_shifts,
               db_last_clockouts)

\* The process dies while a tick of the auto clock-out task awaits a send.
crash_in_tick ==
    /\ Quiet
    /\ UNCHANGED web
    /\ task.pc = "awaiting"
    /\ sheet' = <<>>
    /\ Restart(db_excluded_users, db_active_shifts, db_last_clockouts)

Crash ==
    \/ crash_idle
    \/ \E u \in Users : crash_in_clockout(u)
    \/ \E u \in Users : crash_in_forceclockout(u)
    \/ \E u \in Users : crash_in_exclude(u)
    \/ crash_in_tick

NextCrash == Next \/ Crash

SpecCrash == Init /\ [][NextCrash]_vars

\* What the records hold about user u: the open shift, the last clock-out and
\* the exclusion.
UserState(u) ==
    [shift |-> IF HasShift(u) THEN {ShiftOf(u)} ELSE {},
     last |-> IF u \in DOMAIN last_clockouts THEN {last_clockouts[u]} ELSE {},
     excluded |-> u \in excluded_user_ids]

\* The state of user u after a whole clock-out at the present time, and after
\* a whole exclude.
AfterClockOut(u) == [UserState(u) EXCEPT !.shift = {}, !.last = {strftime(now)}]
AfterExclude(u) == [UserState(u) EXCEPT !.shift = {}, !.excluded = TRUE]

\* The auto clock-out of user u by the tick of time tick_now is half done:
\* LastClockOut holds the time of the tick and the expired shift is open.
HalfClosed(u, tick_now) ==
    /\ HasShift(u)
    /\ Expired(ShiftOf(u), tick_now)
    /\ u \in DOMAIN last_clockouts
    /\ last_clockouts[u] = strftime(tick_now)

\* C13: the state of a user that a restart recovers after a crash inside a
\* clock-out, a forced clock-out, an exclude or an auto clock-out is the
\* state before the operation or the state after the whole operation.
C13_CrashAtomicity ==
    [][/\ \A u \in Users :
              (crash_in_clockout(u) \/ crash_in_forceclockout(u)) =>
                  UserState(u)' \in {UserState(u), AfterClockOut(u)}
       /\ \A u \in Users :
              crash_in_exclude(u) => UserState(u)' \in {UserState(u), AfterExclude(u)}
       /\ crash_in_tick =>
              \A i \in DOMAIN task.expired : ~HalfClosed(task.expired[i], task.now)']_vars

\* C14: an open shift record stays as it was opened, in the dict and in the
\* table, until the step that closes it; no voice event and no !clockin
\* replaces or alters it.
C14_OpenShiftIsNeverOverwritten ==
    [][\A u \in Users :
          (HasShift(u) /\ HasShift(u)') =>
              /\ ShiftOf(u)' = ShiftOf(u)
              /\ ShiftOf(u) \in db_active_shifts
              /\ ShiftOf(u) \in db_active_shifts']_vars

\* A !clockin for a user with an open shift was turned down at a time when
\* neither an exclusion nor a cool-down stood in its way.
C14_Witness ==
    /\ reply.kind = "cannot_clock_in"
    /\ HasShift(reply.uid)
    /\ ParseOk(ShiftOf(reply.uid).clock_in)
    /\ now >= strptime(ShiftOf(reply.uid).clock_in) + Cooldown
    /\ ~(HasLast(reply.uid) /\ now - strptime(last_clockouts[reply.uid]) < Cooldown)

\* C15: !exclude leaves every LastClockOut as it is, in the dict and in the
\* table, whether or not it removes an open shift of the user; it changes
\* nothing but the exclusion set, to which it adds the user, and the open
\* shift of that user, which it removes.
C15_ExcludeFrame ==
    [][\A u \in Users :
          exclude(u) =>
              /\ last_clockouts' = last_clockouts
              /\ db_last_clockouts' = db_last_clockouts
              /\ excluded_user_ids' = excluded_user_ids \cup {u}
              /\ db_excluded_users' = db_excluded_users \cup {u}
              /\ active_shifts' = IF u \in excluded_user_ids THEN active_shifts
                                  ELSE DictDel(active_shifts, u)
              /\ db_active_shifts' = IF u \in excluded_user_ids THEN db_active_shifts
                                     ELSE {r \in db_active_shifts : r.uid # u}
              /\ UNCHANGED <<now, task, closed_at>>]_vars

\* A user was excluded whose auto clock-out the suspended tick had recorded a
\* second earlier and whose expired shift the tick had not yet removed.
C15_Witness ==
    /\ reply.kind = "now_excluded"
    /\ task.pc = "awaiting"
    /\ \E i \in DOMAIN task.expired : task.expired[i] = reply.uid
    /\ now = task.now + Res
    /\ HasLast(reply.uid)
    /\ last_clockouts[reply.uid] = strftime(task.now)
    /\ \E r \in db_last_clockouts : r.uid = reply.uid /\ r.timestamp = strftime(task.now)
    /\ ~HasShift(reply.uid)

\* The dict active_shifts as rows, and the dict last_clockouts as rows.
ShiftRows == {active_shifts[i] : i \in DOMAIN active_shifts}
LastRows == {[uid |-> u, timestamp |-> last_clockouts[u]] : u \in DOMAIN last_clockouts}

\* C16: whenever control can pass to another handler (between two handlers,
\* while a tick of the auto clock-out task awaits a send, after a tick that
\* ended with an error) the three collections in memory hold what the three
\* tables hold.
C16_MemoryEqualsTables ==
    /\ excluded_user_ids = db_excluded_users
    /\ ShiftRows = db_active_shifts
    /\ LastRows = db_last_clockouts
    /\ Len(active_shifts) = Cardinality(db_active_shifts)

\* A tick of the auto clock-out task has ended with an error, leaving open a
\* shift whose clock-out it had recorded in the table.
C16_Witness ==
    /\ task.pc = "failed"
    /\ task.err = "KeyError"
    /\ \E i \in DOMAIN task.expired :
           /\ HasShift(task.expired[i])
           /\ [uid |-> task.expired[i], timestamp |-> strftime(task.now)] \in db_last_clockouts

\* C17: in no state that another handler can observe has a closure of the
\* shift of user u stamped its clock-out (logged it and stored it as
\* LastClockOut) while the shift it closes, opened before that time, is still
\* open.
C17_ClosureIsOneStep ==
    \A u \in Users :
        (HasShift(u) /\ ParseOk(ShiftOf(u).clock_in) /\ u \in DOMAIN closed_at) =>
            ShiftOf(u).clock_in.sec >= closed_at[u]

\* C18: a tick of the auto clock-out task logs 'Clock Out (Auto)' for a user,
\* and notifies the user as auto-expired, only when the shift it took for
\* that user is open at that moment: a shift that was closed by !clockout or
\* !forceclockout, or removed by !exclude, while the tick was suspended gets
\* no further clock-out row and no notification.
C18_OneClockOutPerShift ==
    [][TickStep =>
          /\ \A i \in DOMAIN sheet' :
                 sheet'[i].action = "Clock Out (Auto)" => HasShift(sheet'[i].name)
          /\ reply'.kind = "auto_clocked_out" => HasShift(reply'.uid)]_vars

\* ---------------------------------------------- start with a damaged table
\* A database file that holds two rows written 14 hours before the first
\* tick, of users 1 and 2, and a row with damaged clock_in text of a user 3
\* who has left the guilds since and sends no events.
StaleRows ==
    [shifts |-> {[uid |-> 1, clock_in |-> strftime(0), guild_id |-> 10],
                 [uid |-> 2, clock_in |-> strftime(0), guild_id |-> NoGuild],
                 [uid |-> 3, clock_in |-> Corrupt, guild_id |-> 10]},
     lasts |-> {}, excluded |-> {}]

InitStale ==
    /\ WebInit
    /\ now = 0
    /\ db_excluded_users = StaleRows.excluded
    /\ db_active_shifts = StaleRows.shifts
    /\ db_last_clockouts = StaleRows.lasts
    /\ excluded_user_ids = load_excluded_users_db(db_excluded_users)
    /\ active_shifts = load_active_shifts_db(db_active_shifts)
    /\ last_clockouts = load_last_clockouts_db(db_last_clockouts)
    /\ sheet = <<>>
    /\ reply = NoReply
    /\ task = [Idle(0) EXCEPT !.pc = "unstarted"]
    /\ closed_at = <<>>

SpecStale == InitStale /\ [][Next]_vars

\* A step of the auto clock-out task leaves the record with damaged clock_in
\* text as it is: open, unmodified, not logged, not recorded as clocked out.
SkipsCorrupt ==
    \A i \in DOMAIN active_shifts :
        ~ParseOk(active_shifts[i].clock_in) =>
            LET uid == active_shifts[i].uid IN
            /\ \E j \in DOMAIN active_shifts' : active_shifts'[j] = active_shifts[i]
            /\ active_shifts[i] \in db_active_shifts'
            /\ \A j \in DOMAIN sheet' : sheet'[j].name # uid
            /\ \A j \in DOMAIN task'.expired : task'.expired[j] # uid
            /\ reply'.uid # uid
            /\ uid \in DOMAIN last_clockouts => last_clockouts'[uid] = last_clockouts[uid]

\* C19: a tick of the auto clock-out task that meets a shift whose clock_in
\* text does not parse skips that shift only: it leaves the record open and
\* unmodified and logs no clock-out for it, and when the tick ends every
\* other shift that had reached 14 hours at the time of the tick is closed.
C19_CorruptClockInIsSkipped ==
    [][TickStep =>
          /\ SkipsCorrupt
          /\ (TickEnds /\ \E i \in DOMAIN active_shifts : ~ParseOk(active_shifts[i].clock_in)) =>
                 \A j \in DOMAIN active_shifts' : ~Expired(active_shifts'[j], TickNow)]_vars

\* The stored LastClockOut of user u does not parse.
CorruptLast(u) == u \in DOMAIN last_clockouts /\ ~ParseOk(last_clockouts[u])

\* C20: for a user who is not excluded, has no open shift and has a stored
\* LastClockOut that does not parse, can_clock_in allows the clock-in at every
\* time, and the clock-in by voice join or by !clockin opens the shift and
\* leaves the stored value as it is, in the dict and in the table.
C20_CorruptLastClockOutAllows ==
    [][\A u \in Users :
          (u \notin excluded_user_ids /\ ~HasShift(u) /\ CorruptLast(u)) =>
              /\ \A t \in Instants : can_clock_in(u, t)
              /\ \A g \in Guilds :
                     ((\E c \in VoiceChanges :
                           /\ c[2] # NoChannel /\ c[1] # c[2]
                           /\ on_voice_state_update(u, g, c[1], c[2]))
                      \/ clockin(u, g, TRUE)) =>
                         /\ HasShift(u)' /\ ShiftOf(u)' = Opened(u, g)
                         /\ last_clockouts' = last_clockouts
                         /\ db_last_clockouts' = db_last_clockouts]_vars

\* A user whose stored LastClockOut does not parse was clocked in anew.
C20_Witness ==
    /\ reply.kind \in {"clocked_in", "auto_clocked_in"}
    /\ CorruptLast(reply.uid)
    /\ HasShift(reply.uid)
    /\ ShiftOf(reply.uid).clock_in = strftime(now)
    /\ [uid |-> reply.uid, timestamp |-> Corrupt] \in db_last_clockouts

\* C21: a step that evaluates can_clock_in (a voice event, a !clockin)
\* leaves last_clockouts, the exclusion set and their tables as they are,
\* whatever the answer and also when the stored LastClockOut does not parse;
\* when the answer is no, the open shifts and their table stay as they are
\* too, and when it is yes the only change is the shift that the caller
\* opens.
C21_EligibilityCheckIsPure ==
    [][\A u \in Users, g \in Guilds :
          ((\E c \in VoiceChanges : on_voice_state_update(u, g, c[1], c[2]))
           \/ (\E ok \in BOOLEAN : clockin(u, g, ok))) =>
              /\ last_clockouts' = last_clockouts
              /\ db_last_clockouts' = db_last_clockouts
              /\ excluded_user_ids' = excluded_user_ids
              /\ db_excluded_users' = db_excluded_users
              /\ IF can_clock_in(u, now)
                 THEN /\ active_shifts' \in {active_shifts, Append(active_shifts, Opened(u, g))}
                      /\ db_active_shifts' \in {db_active_shifts,
                                                db_active_shifts \cup {Opened(u, g)}}
                 ELSE /\ active_shifts' = active_shifts
                      /\ db_active_shifts' = db_active_shifts]_vars

\* can_clock_in was evaluated, with the answer no, for a user whose stored
\* LastClockOut does not parse, and the damaged value is still there.
C21_Witness ==
    /\ reply.kind = "cannot_clock_in"
    /\ CorruptLast(reply.uid)
    /\ [uid |-> reply.uid, timestamp |-> Corrupt] \in db_last_clockouts
    /\ now > 0

C23_ExcludeIncludeIdempotent ==
    [][\A u \in Users :
          /\ exclude(u) =>
                 /\ u \in excluded_user_ids' /\ u \in db_excluded_users'
                 /\ ~HasShift(u)'
                 /\ u \in excluded_user_ids =>
                        /\ UNCHANGED <<mem, db, closed_at, task, now>>
                        /\ reply' = Said("already_excluded", u)
          /\ include(u) =>
                 /\ u \notin excluded_user_ids' /\ u \notin db_excluded_users'
                 /\ u \notin excluded_user_ids =>
                        /\ UNCHANGED <<mem, db, closed_at, task, now>>
                        /\ reply' = Said("not_excluded", u)]_vars

\* !include was sent for a user who was not excluded, while another user was.
C23_Witness ==
    /\ reply.kind = "not_excluded"
    /\ reply.uid \notin excluded_user_ids
    /\ excluded_user_ids # {}
    /\ db_excluded_users = excluded_user_ids

\* C24: the listing of !onduty in a guild holds exactly the users whose open
\* shift was opened in that guild, each of them once, and earlier-opened
\* shifts come before later-opened ones. Processes that restart are included:
\* the dict is then rebuilt by load_active_shifts_db.
C24_ListingInOpeningOrder ==
    \A g \in Guilds :
        LET listing == onduty(g)
        IN  /\ {listing[i].uid : i \in DOMAIN listing}
                  = {u \in Users : HasShift(u) /\ ShiftOf(u).guild_id = g}
            /\ \A i, j \in DOMAIN listing :
                   i < j =>
                       /\ listing[i].uid # listing[j].uid
                       /\ (ParseOk(listing[i].clock_in) /\ ParseOk(listing[j].clock_in))
                              => strptime(listing[i].clock_in)
                                     <= strptime(listing[j].clock_in)

\* C25: a shift opened by a voice event or a !clockin of guild g records g as
\* its guild; and whenever the auto clock-out loop sends its notification
\* about a user whose open shift records a guild, the notification goes to
\* the guild of that shift.
C25_NotifiedInOriginGuild ==
    [][/\ \A u \in Users, g \in Guilds :
              (/\ (\E c \in VoiceChanges : on_voice_state_update(u, g, c[1], c[2]))
                     \/ (\E ok \in BOOLEAN : clockin(u, g, ok))
               /\ ~HasShift(u)
               /\ HasShift(u)') => ShiftOf(u)'.guild_id = g
       /\ \A u \in Users :
              (/\ TickStep
               /\ reply' = [kind |-> "auto_clocked_out", uid |-> u, guild |-> reply'.guild]
               /\ HasShift(u)
               /\ ShiftOf(u).guild_id # NoGuild) => reply'.guild = ShiftOf(u).guild_id]_vars

Goto(t, pc) == threads' = [threads EXCEPT ![t].pc = pc]

\* A request of ip arrives: now = time.time(); ip = request.remote_addr.
decorated_function(t, ip) ==
    /\ threads[t].pc = "idle"
    /\ threads' = [threads EXCEPT ![t] = [Waiting EXCEPT !.pc = "line18",
                                                          !.now = clock, !.ip = ip]]
    /\ UNCHANGED <<bot, request_count, clock, dicts, served>>

\* if ip in request_count:
test_known(t) ==
    /\ threads[t].pc = "line18"
    /\ Goto(t, IF threads[t].ip \in DOMAIN request_count THEN "line19" ELSE "line26")
    /\ UNCHANGED <<bot, request_count, clock, dicts, served>>

\* if now - request_count[ip]['time'] >= RATE_TIME:
test_window(t) ==
    /\ threads[t].pc = "line19"
    /\ Goto(t, IF threads[t].now - request_count[threads[t].ip].time >= RATE_TIME
               THEN "line20" ELSE "line21")
    /\ UNCHANGED <<bot, request_count, clock, dicts, served>>

\* elif request_count[ip]['count'] >= RATE_LIMIT: return 'Rate limit exceeded', 429
test_limit(t) ==
    /\ threads[t].pc = "line21"
    /\ threads' = [threads EXCEPT ![t] =
                      IF request_count[threads[t].ip].count >= RATE_LIMIT
                      THEN Waiting ELSE [@ EXCEPT !.pc = "line24"]]
    /\ UNCHANGED <<bot, request_count, clock, dicts, served>>

\* One more request is let through; the history stops counting once the
\* number has passed RATE_LIMIT.
OneMore(n) == IF n > RATE_LIMIT THEN n ELSE n + 1

\* The assignment is a window reset when the ip has no window or the request
\* arrived RATE_TIME or more after the start of the window it replaces.
IsReset(t) ==
    \/ threads[t].ip \notin DOMAIN request_count
    \/ threads[t].now - request_count[threads[t].ip].time >= RATE_TIME

\* request_count[ip] = {'count': 1, 'time': now}, of lines 20 and 26.
new_window(t) ==
    LET ip == threads[t].ip IN
    /\ threads[t].pc \in {"line20", "line26"}
    /\ dicts < MaxDicts
    /\ dicts' = dicts + 1
    /\ request_count' =
           (ip :> [count |-> 1, time |-> threads[t].now, id |-> dicts + 1]) @@ request_count
    /\ served' = [served EXCEPT ![ip] = IF IsReset(t) THEN 1 ELSE OneMore(@)]
    /\ Goto(t, "line27")
    /\ UNCHANGED <<bot, clock>>

\* request_count[ip]['count'] += 1, first half: the dict request_count[ip]
\* and its count are loaded.
count_load(t) ==
    /\ threads[t].pc = "line24"
    /\ threads' = [threads EXCEPT ![t] =
                      [@ EXCEPT !.pc = "line24_store",
                                !.d = request_count[threads[t].ip].id,
                                !.v = request_count[threads[t].ip].count]]
    /\ UNCHANGED <<bot, request_count, clock, dicts, served>>

\* Second half: count + 1 is stored in the dict that was loaded, which is no
\* longer request_count[ip] when another thread assigned a new one meanwhile.
count_store(t) ==
    LET ip == threads[t].ip IN
    /\ threads[t].pc = "line24_store"
    /\ request_count' =
           IF request_count[ip].id = threads[t].d
           THEN [request_count EXCEPT ![ip].count = threads[t].v + 1]
           ELSE request_count
    /\ served' = [served EXCEPT ![ip] = OneMore(@)]
    /\ Goto(t, "line27")
    /\ UNCHANGED <<bot, clock, dicts>>

\* return f(*args, **kwargs): home() answers "I'm alive!".
home(t) ==
    /\ threads[t].pc = "line27"
    /\ threads' = [threads EXCEPT ![t] = Waiting]
    /\ UNCHANGED <<bot, request_count, clock, dicts, served>>

\* time.time() moves on.
time_passes ==
    /\ clock < MaxClock
    /\ clock' = clock + ClockStep
    /\ UNCHANGED <<bot, request_count, threads, dicts, served>>

NextWeb ==
    \/ \E t \in Threads, ip \in RemoteAddrs : decorated_function(t, ip)
    \/ \E t \in Threads : test_known(t)
    \/ \E t \in Threads : test_window(t)
    \/ \E t \in Threads : test_limit(t)
    \/ \E t \in Threads : new_window(t)
    \/ \E t \in Threads : count_load(t)
    \/ \E t \in Threads : count_store(t)
    \/ \E t \in Threads : home(t)
    \/ time_passes

\* The server starts beside a bot whose database is empty.
InitWeb == Init /\ db_active_shifts = NoRows.shifts

SpecWeb == InitWeb /\ [][NextWeb]_vars

\* C27: for each client address, the requests let through since the last
\* reset of its window number at most RATE_LIMIT, whatever the interleaving
\* of the threads that handle them.
C27_AtMostRateLimitServed == \A ip \in RemoteAddrs : served[ip] <= RATE_LIMIT

====
